---- MODULE Spec2Model ----
(***************************************************************************)
(* State-machine model of the FinSight document-analysis client:           *)
(*   - App (state isLoading / progress / result / error / currentFile,     *)
(*     handleFileSelect, handleReset),                                     *)
(*   - FileUpload.handleFileChange (validation, asynchronous file read),   *)
(*   - analyzeFinancialDocument (ingestion, the single generateContent     *)
(*     request, response normalisation, the catch filter).                 *)
(*   - Dashboard (its useState cells, the handlers of its controls, the    *)
(*     derivations targetYear, availableYears, availableEntities,          *)
(*     comparisonData, currentData and the anomaly lists of its views).    *)
(*                                                                         *)
(* Spec follows the App from start-up through file selections, requests    *)
(* and resets; DashSpec follows the Dashboard of one successful analysis   *)
(* through its controls, for each of a bounded set of analysis results.    *)
(* SessionSpec follows App and Dashboard together on documents that have   *)
(* entities; LoadSpec is App with an external service that answers every   *)
(* request (weak fairness); BootSpec is the evaluation of the              *)
(* geminiService module (getApiKey, the client) in each environment;       *)
(* PartsSpec is one call of analyzeFinancialDocument up to its request,    *)
(* for each MIME type and content.                                         *)
(*                                                                         *)
(* JavaScript strings whose characters matter (error messages, searched    *)
(* with String.includes) are records [chars |-> <<"a","b",...>>].  A run   *)
(* of Thai text in a message literal is written as the single character    *)
(* "*": none of the needles the code searches for contains Thai text.      *)
(* null / undefined is the record Null.                                    *)
(***************************************************************************)
EXTENDS Integers, Sequences, FiniteSets, TLC

VARIABLES
  isLoading,    \* App state: useState(false)
  progress,     \* App state: useState(0)
  result,       \* App state: AnalysisResult | null
  error,        \* App state: string | null
  currentFile,  \* App state: FileData | null
  jobs,         \* one entry per accepted file selection: where its
                \* handleFileChange / handleFileSelect continuation stands
                \* and what that continuation still holds of the file
  nfiles,       \* number of accepted file selections so far
  requests,     \* per job: calls of genAI.models.generateContent made for it
  parses,       \* per job: calls of JSON.parse made for it
  alert,        \* the alert() dialog that is open (it blocks the event loop
                \* until it is dismissed), or Null
  resetAt,      \* history: nfiles when handleReset last ran (0 before any)
  viewMode,             \* Dashboard state: useState('dashboard')
  selectedEntity,       \* Dashboard state: useState('Overview')
  accountSearch,        \* Dashboard state: useState('')
  showSaveDialog,       \* Dashboard state: useState(false)
  comparisonMetric,     \* Dashboard state: useState(<the net-profit label>)
  comparisonYear,       \* Dashboard state: useState(''), then the effect
  comparisonChartType,  \* Dashboard state: useState('bar')
  startup,      \* geminiService module: where its top-level code stands, the
                \* environments it reads and what it has computed
  sent          \* a call of analyzeFinancialDocument followed on its own:
                \* its arguments, where it stands and the parts it sent
                \* (Null while the application is followed)

vars == <<isLoading, progress, result, error, currentFile, jobs, nfiles, requests,
          parses, alert, resetAt, viewMode, selectedEntity, accountSearch,
          showSaveDialog, comparisonMetric, comparisonYear, comparisonChartType,
          startup, sent>>

appState == <<isLoading, progress, result, error, currentFile>>

\* the useState cells of the Dashboard component
dashState == <<viewMode, selectedEntity, accountSearch, showSaveDialog,
               comparisonMetric, comparisonYear, comparisonChartType>>

\* ------------------------------------------------------------------ bounds
\* accepted file selections followed in one behaviour
MaxFiles == 2

\* the progress timer is followed while progress is below this value (the
\* code itself stops it at 90)
MaxTickProgress == 10

JobIds == 1..MaxFiles

\* top-level key_metrics of an analysis result
MaxMetrics == 2

\* anomalies of an analysis result that differ in impact only
MaxAnomalies == 6

\* anomalies of an analysis result that differ in related_entity too
MaxRelated == 3

\* entity_insights of an analysis result
MaxEntities == 2

\* account_insights of an analysis result
MaxAccounts == 2

\* --------------------------------------------------------------- JS values
Null == [null |-> TRUE]

Str(c) == [chars |-> c]

\* String.prototype.includes on character sequences
Includes(s, sub) ==
  \E i \in 0..(Len(s.chars) - Len(sub.chars)) :
     SubSeq(s.chars, i + 1, i + Len(sub.chars)) = sub.chars

\* JS truthiness of a string-or-null value
Truthy(v) == v # Null /\ v # Str(<<>>)

\* new Error(message)
Err(m) == [message |-> m]

\* ------------------------------------------------- literals of the source
MAX_FILE_SIZE_MB == 10

MAX_FILE_SIZE_BYTES == MAX_FILE_SIZE_MB * 1024 * 1024

XLSX == "application/vnd.openxmlformats-officedocument.spreadsheetml.sheet"

XLS == "application/vnd.ms-excel"

validTypes ==
  {"image/jpeg", "image/png", "image/webp", "application/pdf", XLSX, XLS, "text/csv"}

\* "ไม่สามารถอ่านไฟล์ Excel ได้ ..."
ExcelErrorMsg == Str(<<"*"," ","E","x","c","e","l"," ","*">>)

\* "ไม่สามารถอ่านไฟล์ CSV ได้ กรุณาตรวจสอบ Encoding ของไฟล์"
CsvErrorMsg ==
  Str(<<"*"," ","C","S","V"," ","*"," ","E","n","c","o","d","i","n","g"," ","*">>)

\* "AI ไม่สามารถประมวลผลข้อมูลจากไฟล์นี้ได้ (Empty Response)"
EmptyResponseMsg ==
  Str(<<"A","I"," ","*"," ","(","E","m","p","t","y"," ","R","e","s","p","o","n","s","e",")">>)

\* "เกิดข้อผิดพลาดในการแปลงผลลัพธ์จาก AI (Invalid JSON Format)"
InvalidJsonMsg ==
  Str(<<"*"," ","A","I"," ","(","I","n","v","a","l","i","d"," ","J","S","O","N"," ",
        "F","o","r","m","a","t",")">>)

\* "เกิดปัญหาการเชื่อมต่อกับระบบ AI หรือไฟล์มีขนาดใหญ่/ซับซ้อนเกินไป"
GenericMsg == Str(<<"*"," ","A","I"," ","*","/","*">>)

\* "เกิดข้อผิดพลาดในการวิเคราะห์เอกสาร กรุณาลองใหม่อีกครั้ง"
FallbackMsg == Str(<<"*">>)

\* the three alert() texts of handleFileChange: unsupported type, file too
\* large, file processing error
TypeAlert == [alert |-> "type"]

SizeAlert == [alert |-> "size"]

ProcessingAlert == [alert |-> "processing"]

\* --------------------------------------------------------- inputs (bounded)
\* MIME types a selected file can report: the seven accepted ones and two
\* the type check has to turn away (one of them an image type).
FileTypes == validTypes \cup {"image/gif", "text/plain"}

\* File sizes: small, exactly the ceiling, one byte over it.
FileSizes == {1, MAX_FILE_SIZE_BYTES, MAX_FILE_SIZE_BYTES + 1}

Files == [type : FileTypes, size : FileSizes, name : {"doc"}]

\* response.text of a resolved generateContent call
ResponseTexts ==
  { "{\"summary\":\"A\"}", "{ \"summary\": \"A\" }", "{\"summary\":\"B\"}",
    "", "not json", "{\"summary\":" }

\* a resolved response: text may be absent (undefined)
Responses ==
  {[hasText |-> FALSE, text |-> ""]} \cup {[hasText |-> TRUE, text |-> t] : t \in ResponseTexts}

\* errors a rejected generateContent call can carry (network failure,
\* invalid key, provider-side status, an error without a message)
ServiceErrors ==
  { Err(Str(<<"F","a","i","l","e","d"," ","t","o"," ","f","e","t","c","h">>)),
    Err(Str(<<"A","P","I"," ","k","e","y"," ","n","o","t"," ","v","a","l","i","d">>)),
    Err(Str(<<"5","0","3"," ","U","N","A","V","A","I","L","A","B","L","E">>)),
    Err(Str(<<>>)) }

\* an analysis with the given entities and nothing else of interest
AnalysisOf(names) ==
  [summary |-> Str(<<"s","0">>), future_outlook |-> Str(<<"f","0">>),
   financial_ratios |-> <<>>, key_metrics |-> <<>>, anomalies |-> <<>>,
   entity_insights |-> [i \in 1..Len(names) |->
                          [name |-> names[i], liquidity_status |-> "Good",
                           summary |-> Str(<<"s">>), key_metrics |-> <<>>]]]

\* response texts of two documents: one with two entities, one with the
\* first of them only
TwoEntitiesText == "{\"entity_insights\":[{\"name\":\"E1\"},{\"name\":\"E2\"}]}"

OneEntityText == "{\"entity_insights\":[{\"name\":\"E1\"}]}"

EntityResponses ==
  {[hasText |-> TRUE, text |-> t] : t \in {TwoEntitiesText, OneEntityText}}

\* ----------------------------------------------- analyzeFinancialDocument
SyntaxError == [syntaxError |-> TRUE]

\* JSON.parse on the response texts of the model: different texts may denote
\* the same value, and some texts do not parse.
JSONparse(t) ==
  CASE t = "{\"summary\":\"A\"}"     -> [summary |-> "A"]
    [] t = "{ \"summary\": \"A\" }"  -> [summary |-> "A"]
    [] t = "{\"summary\":\"B\"}"     -> [summary |-> "B"]
    [] t = TwoEntitiesText           -> AnalysisOf(<<Str(<<"E","1">>), Str(<<"E","2">>)>>)
    [] t = OneEntityText             -> AnalysisOf(<<Str(<<"E","1">>)>>)
    [] OTHER                         -> SyntaxError

\* parseExcelContent: the extracted text, or the Excel error when xlsx.read
\* (or atob) throws on the content.
parseExcelContent(readable) ==
  IF readable THEN [thrown |-> Null, text |-> "excelText"]
  ELSE [thrown |-> Err(ExcelErrorMsg), text |-> ""]

\* BuildParts without the CSV branch: a CSV file is sent as inline data
BuildParts_CsvInline(base64Data, mimeType, readable) ==
  IF mimeType = XLSX \/ mimeType = XLS
  THEN LET x == parseExcelContent(readable) IN
       IF x.thrown # Null THEN [thrown |-> x.thrown, parts |-> <<>>]
       ELSE [thrown |-> Null, parts |-> <<[text |-> x.text], [text |-> "promptText"]>>]
  ELSE [thrown |-> Null,
        parts |-> <<[inlineData |-> [mimeType |-> mimeType, data |-> base64Data]],
                    [text |-> "promptText"]>>]

\* The part of analyzeFinancialDocument before the request: builds `parts`
\* from the payload, or throws.  `readable` says whether the content can be
\* decoded (Excel: xlsx.read succeeds; CSV: atob / TextDecoder succeed).
BuildParts(base64Data, mimeType, readable) ==
  IF mimeType = XLSX \/ mimeType = XLS
  THEN LET x == parseExcelContent(readable) IN
       IF x.thrown # Null THEN [thrown |-> x.thrown, parts |-> <<>>]
       ELSE [thrown |-> Null, parts |-> <<[text |-> x.text], [text |-> "promptText"]>>]
  ELSE IF mimeType = "text/csv"
  THEN IF readable
       THEN [thrown |-> Null, parts |-> <<[text |-> "csvText"], [text |-> "promptText"]>>]
       ELSE [thrown |-> Err(CsvErrorMsg), parts |-> <<>>]
  ELSE [thrown |-> Null,
        parts |-> <<[inlineData |-> [mimeType |-> mimeType, data |-> base64Data]],
                    [text |-> "promptText"]>>]

\* ParseResponse with the parse error swallowed: an unparsable text yields an
\* empty result instead of throwing.
ParseResponse_Partial(response) ==
  IF ~response.hasText \/ response.text = ""
  THEN [thrown |-> Err(EmptyResponseMsg), value |-> Null, parsed |-> FALSE]
  ELSE LET v == JSONparse(response.text) IN
       IF v = SyntaxError
       THEN [thrown |-> Null, value |-> [summary |-> ""], parsed |-> TRUE]
       ELSE [thrown |-> Null, value |-> v, parsed |-> TRUE]

\* ParseResponse with the empty check testing only for an absent text
\* (textResponse === undefined): "" goes on to JSON.parse.
ParseResponse_AbsentOnly(response) ==
  IF ~response.hasText
  THEN [thrown |-> Err(EmptyResponseMsg), value |-> Null, parsed |-> FALSE]
  ELSE LET v == JSONparse(response.text) IN
       IF v = SyntaxError
       THEN [thrown |-> Err(InvalidJsonMsg), value |-> Null, parsed |-> TRUE]
       ELSE [thrown |-> Null, value |-> v, parsed |-> TRUE]

\* ParseResponse with the raw response text appended to the error message
ParseResponse_EchoText(response) ==
  IF ~response.hasText \/ response.text = ""
  THEN [thrown |-> Err(EmptyResponseMsg), value |-> Null, parsed |-> FALSE]
  ELSE LET v == JSONparse(response.text) IN
       IF v = SyntaxError
       THEN [thrown |-> Err(Str(InvalidJsonMsg.chars \o <<response.text>>)),
             value |-> Null, parsed |-> TRUE]
       ELSE [thrown |-> Null, value |-> v, parsed |-> TRUE]

\* The part after `await generateContent` resolved: empty check, JSON.parse.
ParseResponse(response) ==
  IF ~response.hasText \/ response.text = ""
  THEN [thrown |-> Err(EmptyResponseMsg), value |-> Null, parsed |-> FALSE]
  ELSE LET v == JSONparse(response.text) IN
       IF v = SyntaxError
       THEN [thrown |-> Err(InvalidJsonMsg), value |-> Null, parsed |-> TRUE]
       ELSE [thrown |-> Null, value |-> v, parsed |-> TRUE]

\* CatchFilter without the "Excel" test
CatchFilter_NoExcel(e) ==
  IF Truthy(e.message)
     /\ ( Includes(e.message, Str(<<"A","I">>))
          \/ Includes(e.message, Str(<<"J","S","O","N">>))
          \/ Includes(e.message, Str(<<"A","P","I"," ","K","e","y">>)) )
  THEN e
  ELSE Err(GenericMsg)

\* The outer catch of analyzeFinancialDocument: which error leaves the function.
CatchFilter(e) ==
  IF Truthy(e.message)
     /\ ( Includes(e.message, Str(<<"E","x","c","e","l">>))
          \/ Includes(e.message, Str(<<"A","I">>))
          \/ Includes(e.message, Str(<<"J","S","O","N">>))
          \/ Includes(e.message, Str(<<"A","P","I"," ","K","e","y">>)) )
  THEN e
  ELSE Err(GenericMsg)

\* ------------------------------------------------------------- FileUpload
\* handleFileChange, check 1: validTypes.includes(file.type)
TypeSupported(file) == file.type \in validTypes

\* check 2 written with >= : a file of exactly the ceiling is turned away
TooLarge_AtCeiling(file) == file.size >= MAX_FILE_SIZE_BYTES

\* handleFileChange, check 2: file.size > MAX_FILE_SIZE_BYTES
TooLarge(file) == file.size > MAX_FILE_SIZE_BYTES

\* file.type.startsWith('image/')
IsImage(type) == type \in {"image/jpeg", "image/png", "image/webp", "image/gif"}

\* the payload keeps the MIME type of the file that was selected, also for
\* an image that was re-encoded
FileDataOf_KeepType(file, base64) ==
  [base64 |-> base64, mimeType |-> file.type, name |-> file.name]

\* the payload handed to onFileSelect once the read resolved with `base64`
FileDataOf(file, base64) ==
  [base64 |-> base64,
   mimeType |-> IF IsImage(file.type) THEN "image/jpeg" ELSE file.type,
   name |-> file.name]

Base64Kinds == {"jpegBase64", "dataUrlOfOriginal", "rawBase64"}

\* what the awaited read can resolve with: compressImage (canvas re-encoding,
\* or the untouched data URL when no 2d context exists), or the FileReader
\* data URL with its prefix split off.
ReadResults(file) ==
  IF IsImage(file.type) THEN {"jpegBase64", "dataUrlOfOriginal"} ELSE {"rawBase64"}

\* ---------------------------------------------------------------- Dashboard
\* An AnalysisResult is a record with the fields of types.ts; an optional
\* field that is absent is absent from the record.  Texts are Str values; a
\* Thai character is written by its code point ("U+0E01").
\* obj.field / obj?.field of a field that may be absent (undefined reads as
\* Null: the code tests such values only for truthiness)
Field(r, f) == IF f \in DOMAIN r THEN r[f] ELSE Null

\* selectedEntity's initial value and the first entry of availableEntities
Overview == Str(<<"O","v","e","r","v","i","e","w">>)

\* currentData: summary of an entity that is not found (or has none)
NoDataPlaceholder ==
  Str(
      <<"N","o"," ","d","a","t","a"," ","a","v","a","i","l","a","b","l","e",
        " ","f","o","r"," ","t","h","i","s"," ","e","n","t","i","t","y",
        ".">>)

\* currentData: future outlook while an entity is selected
FutureInOverview ==
  Str(
      <<"F","u","t","u","r","e"," ","o","u","t","l","o","o","k"," ","a","v",
        "a","i","l","a","b","l","e"," ","i","n"," ","c","o","n","s","o","l",
        "i","d","a","t","e","d"," ","o","v","e","r","v","i","e","w",".">>)

\* <option value> literals of the comparison-metric selector
NetProfit == Str(<<"U+0E01","U+0E33","U+0E44","U+0E23","U+0E2A","U+0E38","U+0E17","U+0E18","U+0E34">>)

TotalRevenue == Str(<<"U+0E23","U+0E32","U+0E22","U+0E44","U+0E14","U+0E49","U+0E23","U+0E27","U+0E21">>)

TotalExpenses == Str(<<"U+0E04","U+0E48","U+0E32","U+0E43","U+0E0A","U+0E49","U+0E08","U+0E48","U+0E32","U+0E22","U+0E23","U+0E27","U+0E21">>)

GrossProfit == Str(<<"U+0E01","U+0E33","U+0E44","U+0E23","U+0E02","U+0E31","U+0E49","U+0E19","U+0E15","U+0E49","U+0E19">>)

EBITDA == Str(<<"E","B","I","T","D","A">>)

TotalAssets == Str(<<"U+0E2A","U+0E34","U+0E19","U+0E17","U+0E23","U+0E31","U+0E1E","U+0E22","U+0E4C","U+0E23","U+0E27","U+0E21">>)

TotalLiabilities == Str(<<"U+0E2B","U+0E19","U+0E35","U+0E49","U+0E2A","U+0E34","U+0E19","U+0E23","U+0E27","U+0E21">>)

MetricOptions ==
  {NetProfit, TotalRevenue, TotalExpenses, GrossProfit, EBITDA, TotalAssets,
   TotalLiabilities}

\* year labels the priority rule of targetYear names
Y2568 == Str(<<"2","5","6","8">>)

Y2025 == Str(<<"2","0","2","5">>)

\* String.prototype.localeCompare on digit strings: -1, 0 or 1
Digits == <<"0","1","2","3","4","5","6","7","8","9">>

CharRank(c) == CHOOSE i \in 1..Len(Digits) : Digits[i] = c

RECURSIVE CompareChars(_, _)
CompareChars(a, b) ==
  IF a = <<>> /\ b = <<>> THEN 0
  ELSE IF a = <<>> THEN -1
  ELSE IF b = <<>> THEN 1
  ELSE IF CharRank(Head(a)) < CharRank(Head(b)) THEN -1
  ELSE IF CharRank(Head(a)) > CharRank(Head(b)) THEN 1
  ELSE CompareChars(Tail(a), Tail(b))

localeCompare(a, b) == CompareChars(a.chars, b.chars)

\* Array.prototype.sort(cmp) on a fresh array: stable; cmp is the function
\* [<<a, b>> |-> number], and a stays before b unless cmp says otherwise.
InsertSorted(sorted, x, cmp) ==
  LET keep == {i \in 1..Len(sorted) : cmp[<<sorted[i], x>>] <= 0}
      n == IF keep = {} THEN 0 ELSE CHOOSE i \in keep : \A j \in keep : j <= i
  IN SubSeq(sorted, 1, n) \o <<x>> \o SubSeq(sorted, n + 1, Len(sorted))

RECURSIVE Sort(_, _)
Sort(arr, cmp) ==
  IF Len(arr) = 0 THEN <<>>
  ELSE InsertSorted(Sort(SubSeq(arr, 1, Len(arr) - 1), cmp), arr[Len(arr)], cmp)

Range(arr) == {arr[i] : i \in 1..Len(arr)}

\* Array.prototype.filter
RECURSIVE SelectIdx(_, _)
SelectIdx(n, keep) ==
  IF n = 0 THEN <<>>
  ELSE IF n \in keep THEN Append(SelectIdx(n - 1, keep), n)
  ELSE SelectIdx(n - 1, keep)

\* Array.prototype.slice(0, n)
Slice(arr, n) == SubSeq(arr, 1, IF Len(arr) < n THEN Len(arr) ELSE n)

\* ------------------------------------------------- Dashboard: derivations
\* an array-valued field that may be absent, as the sequence forEach/map see
\* (`data.key_metrics?.forEach`, `data.entity_insights?.forEach`)
Items(r, f) == IF f \in DOMAIN r THEN r[f] ELSE <<>>

\* a Set filled in insertion order, as the array Array.from gives back
RECURSIVE ArrayFromSet(_)
ArrayFromSet(added) ==
  IF Len(added) = 0 THEN <<>>
  ELSE LET before == ArrayFromSet(SubSeq(added, 1, Len(added) - 1))
           x == added[Len(added)]
       IN IF x \in Range(before) THEN before ELSE Append(before, x)

RECURSIVE Flatten(_)
Flatten(arrs) ==
  IF Len(arrs) = 0 THEN <<>> ELSE Head(arrs) \o Flatten(Tail(arrs))

\* the `years` Set of targetYear / availableYears: `m.year && years.add(m.year)`
\* over the top-level metrics, then over every entity's metrics
YearsAdded(data) ==
  LET metrics == Items(data, "key_metrics") \o
                 Flatten([i \in 1..Len(Items(data, "entity_insights")) |->
                            data.entity_insights[i].key_metrics])
      truthy == {i \in 1..Len(metrics) : Truthy(Field(metrics[i], "year"))}
      kept == SelectIdx(Len(metrics), truthy)
  IN ArrayFromSet([i \in 1..Len(kept) |-> metrics[kept[i]].year])

\* (a, b) => b.localeCompare(a)
DescendingYears(arr) ==
  [p \in Range(arr) \X Range(arr) |-> localeCompare(p[2], p[1])]

\* targetYear without the two priority labels: the latest year only
targetYear_LatestOnly(data) ==
  LET years == YearsAdded(data)
      sortedYears == Sort(years, DescendingYears(years))
  IN IF Len(sortedYears) = 0 THEN Str(<<>>) ELSE sortedYears[1]

targetYear(data) ==
  LET years == YearsAdded(data)
      sortedYears == Sort(years, DescendingYears(years))
  IN IF Y2568 \in Range(years) THEN Y2568
     ELSE IF Y2025 \in Range(years) THEN Y2025
     ELSE IF Len(sortedYears) = 0 THEN Str(<<>>)
     ELSE sortedYears[1]

availableYears(data) ==
  LET years == YearsAdded(data) IN Sort(years, DescendingYears(years))

availableEntities(data) ==
  LET entities == Items(data, "entity_insights")
  IN <<Overview>> \o [i \in 1..Len(entities) |-> entities[i].name]

\* Array.prototype.find: the first element whose index is in `hits`, or Null
Find(arr, hits) ==
  IF hits = {} THEN Null
  ELSE arr[CHOOSE i \in hits : \A j \in hits : i <= j]

\* comparisonData that leaves out the entities without a matching metric
comparisonData_OmitUnmatched(data, metricLabel, year) ==
  LET entities == Items(data, "entity_insights")
      hits(entity) == {j \in 1..Len(entity.key_metrics) :
                         /\ Includes(entity.key_metrics[j].label, metricLabel)
                         /\ Field(entity.key_metrics[j], "year") = year}
      kept == SelectIdx(Len(entities), {i \in 1..Len(entities) : hits(entities[i]) # {}})
  IN [i \in 1..Len(kept) |->
        LET entity == entities[kept[i]]
            metric == Find(entity.key_metrics, hits(entity))
        IN [name |-> entity.name, value |-> metric.value, unit |-> metric.unit]]

comparisonData(data, metricLabel, year) ==
  LET entities == Items(data, "entity_insights")
  IN [i \in 1..Len(entities) |->
        LET entity == entities[i]
            metric == Find(entity.key_metrics,
                           {j \in 1..Len(entity.key_metrics) :
                              /\ Includes(entity.key_metrics[j].label, metricLabel)
                              /\ Field(entity.key_metrics[j], "year") = year})
        IN [name |-> entity.name,
            value |-> IF metric # Null THEN metric.value ELSE 0,
            unit |-> IF metric # Null THEN metric.unit ELSE Str(<<>>)]]

\* renderComparisonChart that falls back to the empty state as soon as one
\* entry is 0
renderComparisonChart_AnyZero(series, type) ==
  IF Len(series) = 0 \/ \E i \in 1..Len(series) : series[i].value = 0
  THEN [kind |-> "empty"]
  ELSE [kind |-> type, data |-> series]

\* renderComparisonChart: the empty state, or the chart of the chosen type
\* (pie, line, bar by default) over the whole series
renderComparisonChart(series, type) ==
  IF Len(series) = 0 \/ ~(\E i \in 1..Len(series) : series[i].value # 0)
  THEN [kind |-> "empty"]
  ELSE [kind |-> IF type = "pie" THEN "pie" ELSE IF type = "line" THEN "line" ELSE "bar",
        data |-> series]

\* the cased letters of the bounded alphabet, upper case and lower case
UpperCase ==
  <<"A", "B", "C", "D", "E", "F", "G", "H", "I", "J", "K", "L", "M", "N", "O", "P", "Q", "R", "S", "T", "U", "V", "W", "X", "Y", "Z">>

LowerCase ==
  <<"a", "b", "c", "d", "e", "f", "g", "h", "i", "j", "k", "l", "m", "n", "o", "p", "q", "r", "s", "t", "u", "v", "w", "x", "y", "z">>

\* String.prototype.toLowerCase, character by character
toLowerCase(s) ==
  Str([i \in 1..Len(s.chars) |->
         IF \E n \in 1..Len(UpperCase) : UpperCase[n] = s.chars[i]
         THEN LowerCase[CHOOSE n \in 1..Len(UpperCase) : UpperCase[n] = s.chars[i]]
         ELSE s.chars[i]])

\* filteredAccounts that searches the account names only
filteredAccounts_NameOnly(data, search) ==
  IF ~("account_insights" \in DOMAIN data) THEN <<>>
  ELSE LET accounts == data.account_insights
           keep == {i \in 1..Len(accounts) :
                      Includes(toLowerCase(accounts[i].account_name), toLowerCase(search))}
           idx == SelectIdx(Len(accounts), keep)
       IN [k \in 1..Len(idx) |-> accounts[idx[k]]]

\* filteredAccounts: the accounts whose name or analysis has the search text
filteredAccounts(data, search) ==
  IF ~("account_insights" \in DOMAIN data) THEN <<>>
  ELSE LET accounts == data.account_insights
           keep == {i \in 1..Len(accounts) :
                      \/ Includes(toLowerCase(accounts[i].account_name), toLowerCase(search))
                      \/ Includes(toLowerCase(accounts[i].analysis), toLowerCase(search))}
           idx == SelectIdx(Len(accounts), keep)
       IN [k \in 1..Len(idx) |-> accounts[idx[k]]]

\* currentData without the `|| placeholder` fallback: the summary of the
\* entity that was found, and the empty text when none was
currentData_NoPlaceholder(data, entity) ==
  IF entity = Overview
  THEN [summary |-> data.summary,
        future |-> data.future_outlook,
        anomalies |-> data.anomalies,
        liquidityStatus |-> Null,
        ratios |-> data.financial_ratios]
  ELSE LET entities == Items(data, "entity_insights")
           entityData == Find(entities,
                              {i \in 1..Len(entities) : entities[i].name = entity})
           shown == {i \in 1..Len(data.anomalies) :
                       \/ Field(data.anomalies[i], "related_entity") = entity
                       \/ ~Truthy(Field(data.anomalies[i], "related_entity"))}
           kept == SelectIdx(Len(data.anomalies), shown)
       IN [summary |-> IF entityData # Null THEN entityData.summary ELSE Str(<<>>),
           future |-> FutureInOverview,
           anomalies |-> [i \in 1..Len(kept) |-> data.anomalies[kept[i]]],
           liquidityStatus |-> IF entityData # Null
                               THEN entityData.liquidity_status ELSE Null,
           ratios |-> <<>>]

currentData(data, entity) ==
  IF entity = Overview
  THEN [summary |-> data.summary,
        future |-> data.future_outlook,
        anomalies |-> data.anomalies,
        liquidityStatus |-> Null,
        ratios |-> data.financial_ratios]
  ELSE LET entities == Items(data, "entity_insights")
           entityData == Find(entities,
                              {i \in 1..Len(entities) : entities[i].name = entity})
           shown == {i \in 1..Len(data.anomalies) :
                       \/ Field(data.anomalies[i], "related_entity") = entity
                       \/ ~Truthy(Field(data.anomalies[i], "related_entity"))}
           kept == SelectIdx(Len(data.anomalies), shown)
       IN [summary |-> IF entityData # Null /\ Truthy(entityData.summary)
                       THEN entityData.summary ELSE NoDataPlaceholder,
           future |-> FutureInOverview,
           anomalies |-> [i \in 1..Len(kept) |-> data.anomalies[kept[i]]],
           liquidityStatus |-> IF entityData # Null
                               THEN entityData.liquidity_status ELSE Null,
           ratios |-> <<>>]

\* (a, b) => (b.impact === 'High' ? 1 : 0) - (a.impact === 'High' ? 1 : 0)
HighFirst(arr) ==
  [p \in Range(arr) \X Range(arr) |->
     (IF p[2].impact = "High" THEN 1 ELSE 0) - (IF p[1].impact = "High" THEN 1 ELSE 0)]

\* the anomaly cards of the dashboard view
DashboardAnomalies(data, entity) ==
  LET anomalies == currentData(data, entity).anomalies
  IN Slice(Sort(anomalies, HighFirst(anomalies)), 5)

\* the anomaly list of the report view
ReportAnomalies(data, entity) == data.anomalies

\* topAnomalies of the Dashboard variant with impactWeight
impactWeight(impact) ==
  CASE impact = "High" -> 3 [] impact = "Medium" -> 2 [] impact = "Low" -> 1
    [] OTHER -> 0

ByImpactWeight(arr) ==
  [p \in Range(arr) \X Range(arr) |->
     impactWeight(p[2].impact) - impactWeight(p[1].impact)]

topAnomalies(data, entity) ==
  LET anomalies == currentData(data, entity).anomalies
  IN Slice(Sort(anomalies, ByImpactWeight(anomalies)), 5)

\* The prop `data` after a render that sorted the array the anomaly cards
\* are built from in place (no spread copy): with "Overview" selected that
\* array is data.anomalies itself.
Render_SortInPlace(data, entity, mode) ==
  IF mode = "dashboard" /\ entity = Overview
  THEN [data EXCEPT !.anomalies = Sort(@, HighFirst(@))]
  ELSE data

\* The prop `data` after a render.  Every sort of the component runs on an
\* array made for it (Array.from(years), [...currentData.anomalies]) and
\* entities.push appends to a local array, so the object is left as it was.
Render(data, entity, mode) == data

\* ------------------------------------------- analysis results (bounded)
Y2024 == Str(<<"2","0","2","4">>)

Y999 == Str(<<"9","9","9">>)

Baht == Str(<<"T","H","B">>)

SeqsUpTo(S, n) == UNION {[1..k -> S] : k \in 0..n}

\* a metric whose year is one of the labels, empty, or absent
YearMetrics ==
  {[label |-> TotalAssets, value |-> 1, unit |-> Baht, year |-> y] :
      y \in {Y2568, Y2025, Y2024, Y999, Str(<<>>)}}
  \cup {[label |-> TotalAssets, value |-> 1, unit |-> Baht]}

EntityName(i) == Str(<<"E", Digits[i + 1]>>)

Ratio ==
  [name |-> Str(<<"C","R">>), value |-> 2, benchmark |-> Null, status |-> "Good",
   category |-> "Liquidity", description |-> Str(<<"d">>)]

BaseResult ==
  [summary |-> Str(<<"s","0">>), future_outlook |-> Str(<<"f","0">>),
   financial_ratios |-> <<Ratio>>, key_metrics |-> <<>>, anomalies |-> <<>>]

\* results that differ in the years their metrics carry
YearResults ==
  {km @@ ei @@ BaseResult :
     km \in {[key_metrics |-> m] : m \in SeqsUpTo(YearMetrics, MaxMetrics)},
     ei \in {<<>>, [entity_insights |-> <<>>]} \cup
            {[entity_insights |->
                <<[name |-> EntityName(1), liquidity_status |-> "Good",
                   summary |-> Str(<<"s","1">>), key_metrics |-> <<m>>]>>] :
               m \in YearMetrics}}

Impacts == {"High", "Medium", "Low"}

\* results without entities whose anomalies differ in impact
ImpactResults ==
  {[anomalies |-> [i \in 1..Len(f) |->
                     [item |-> i, observation |-> Str(<<"o">>), impact |-> f[i]]]]
     @@ BaseResult : f \in SeqsUpTo(Impacts, MaxAnomalies)}

\* what an anomaly can say about its entity: nothing, the empty string, the
\* entity of the result, an entity the result does not have
RelatedKinds ==
  {[impact |-> "High"],
   [impact |-> "Low", related_entity |-> Str(<<>>)],
   [impact |-> "Low", related_entity |-> EntityName(1)],
   [impact |-> "High", related_entity |-> EntityName(1)],
   [impact |-> "High", related_entity |-> EntityName(2)]}

\* results with one entity whose anomalies differ in related_entity
RelatedResults ==
  {[anomalies |-> [i \in 1..Len(f) |->
                     [item |-> i, observation |-> Str(<<"o">>)] @@ f[i]],
    entity_insights |->
       <<[name |-> EntityName(1), liquidity_status |-> "Poor",
          summary |-> Str(<<"s","1">>), key_metrics |-> <<>>]>>]
     @@ BaseResult : f \in SeqsUpTo(RelatedKinds, MaxRelated)}

\* a label that contains the net-profit label, and one contained in it
NetProfitLong == Str(NetProfit.chars \o <<" ","(","M",")">>)

Profit == Str(SubSeq(NetProfit.chars, 1, 4))

\* what an entity can carry: its summary (possibly empty) and its metrics
EntityKinds ==
  {[summary |-> Str(<<"s","A">>),
    key_metrics |-> <<[label |-> NetProfitLong, value |-> 5, unit |-> Baht, year |-> Y2568],
                      [label |-> TotalRevenue, value |-> 7, unit |-> Baht, year |-> Y2568]>>],
   [summary |-> Str(<<>>),
    key_metrics |-> <<[label |-> NetProfit, value |-> 3, unit |-> Baht, year |-> Y2025],
                      [label |-> NetProfit, value |-> 4, unit |-> Baht, year |-> Y2568],
                      [label |-> NetProfit, value |-> 9, unit |-> Baht, year |-> Y2568]>>],
   [summary |-> Str(<<"s","C">>),
    key_metrics |-> <<[label |-> Profit, value |-> 6, unit |-> Baht, year |-> Y2568]>>],
   [summary |-> Str(<<"s","D">>), key_metrics |-> <<>>]}

\* results whose entities differ
EntityResults ==
  {[entity_insights |-> [i \in 1..Len(f) |->
                           [name |-> EntityName(i), liquidity_status |-> "Average"]
                           @@ f[i]],
    anomalies |-> <<[item |-> 1, observation |-> Str(<<"o">>), impact |-> "Low",
                     related_entity |-> EntityName(1)],
                    [item |-> 2, observation |-> Str(<<"o">>), impact |-> "High",
                     related_entity |-> EntityName(2)]>>]
     @@ BaseResult : f \in SeqsUpTo(EntityKinds, MaxEntities)}

\* an account named after the search text, one that has it in its analysis
\* only (in another case), and one without it
AccountKinds ==
  {[account_name |-> Str(<<"C","a","s","h">>), value |-> 10,
    analysis |-> Str(<<"o","k">>), status |-> "Good"],
   [account_name |-> Str(<<"B","a","n","k">>), value |-> 20, change_percentage |-> 5,
    analysis |-> Str(<<"l","o","w"," ","C","A","S","H">>), status |-> "Concern"],
   [account_name |-> Str(<<"D","e","b","t">>), value |-> 30,
    analysis |-> Str(<<"f","i","n","e">>), status |-> "Normal"]}

\* results whose accounts differ
AccountResults ==
  {[account_insights |-> f] @@ BaseResult : f \in SeqsUpTo(AccountKinds, MaxAccounts)}

\* the analysis results the Dashboard is followed on
Results ==
  YearResults \cup ImpactResults \cup RelatedResults \cup EntityResults \cup AccountResults

\* the inputs of the Dashboard's controls
ViewModes == {"dashboard", "accounts", "report"}

ChartTypes == {"bar", "pie", "line"}

AccountSearches ==
  {Str(<<>>), Str(<<"C","a">>), Str(<<"c","A","s","H">>), Str(<<"z","z">>)}

\* ---------------------------------------------- geminiService: start-up
\* what `import.meta` can be when the module is evaluated: reading it
\* throws, it has no env, or it has an env with or without VITE_API_KEY
ViteSources ==
  {[kind |-> "throws", env |-> Null], [kind |-> "meta", env |-> Null]} \cup
  {[kind |-> "meta", env |-> e] :
     e \in {[MODE |-> Str(<<"p">>)],
            [MODE |-> Str(<<"p">>), VITE_API_KEY |-> Str(<<>>)],
            [MODE |-> Str(<<"p">>), VITE_API_KEY |-> Str(<<"k","1">>)]}}

\* what `process` can be: undefined, an object whose env cannot be read,
\* one without env, or one with an env with or without API_KEY
ProcessSources ==
  {[kind |-> "undefined", env |-> Null], [kind |-> "throws", env |-> Null],
   [kind |-> "process", env |-> Null]} \cup
  {[kind |-> "process", env |-> e] :
     e \in {[NODE_ENV |-> Str(<<"d">>)],
            [NODE_ENV |-> Str(<<"d">>), API_KEY |-> Str(<<>>)],
            [NODE_ENV |-> Str(<<"d">>), API_KEY |-> Str(<<"k","2">>)]}}

\* body of the first try block: the Vite key to return, if any
ReadViteKey(vite) ==
  IF vite.kind = "throws" THEN [thrown |-> TRUE, key |-> Null]
  ELSE IF vite.env # Null /\ Truthy(Field(vite.env, "VITE_API_KEY"))
  THEN [thrown |-> FALSE, key |-> vite.env.VITE_API_KEY]
  ELSE [thrown |-> FALSE, key |-> Null]

\* body of the second try block: the process key to return, if any
ReadProcessKey(process) ==
  IF process.kind = "throws" THEN [thrown |-> TRUE, key |-> Null]
  ELSE IF /\ process.kind # "undefined"
          /\ process.env # Null
          /\ Truthy(Field(process.env, "API_KEY"))
  THEN [thrown |-> FALSE, key |-> process.env.API_KEY]
  ELSE [thrown |-> FALSE, key |-> Null]

\* a try block without its catch: the error leaves getApiKey
TryCatch_Rethrow(r) == r

\* try { ... } catch (e) { /* ignore */ }
TryCatch(r) == IF r.thrown THEN [thrown |-> FALSE, key |-> Null] ELSE r

\* the module once its top-level code has run with a Vite key
Started ==
  [pc |-> "ready", vite |-> [kind |-> "meta",
                             env |-> [MODE |-> Str(<<"p">>),
                                      VITE_API_KEY |-> Str(<<"k","1">>)]],
   process |-> [kind |-> "undefined", env |-> Null],
   apiKey |-> Str(<<"k","1">>), warned |-> FALSE]

\* ------------------------------------------------------------------- state
Idle == [pc |-> "idle"]

\* the useState initial values of a Dashboard
useStateDefaults ==
  /\ viewMode = "dashboard"
  /\ selectedEntity = Overview
  /\ accountSearch = Str(<<>>)
  /\ showSaveDialog = FALSE
  /\ comparisonMetric = NetProfit
  /\ comparisonYear = Str(<<>>)
  /\ comparisonChartType = "bar"

Init ==
  /\ isLoading = FALSE
  /\ progress = 0
  /\ result = Null
  /\ error = Null
  /\ currentFile = Null
  /\ jobs = [k \in JobIds |-> Idle]
  /\ nfiles = 0
  /\ requests = [k \in JobIds |-> 0]
  /\ parses = [k \in JobIds |-> 0]
  /\ alert = Null
  /\ resetAt = 0
  /\ useStateDefaults
  /\ startup = Started
  /\ sent = Null

\* calls of analyzeFinancialDocument that have started and not yet settled
InFlight == {k \in JobIds : jobs[k].pc = "requested"}

\* The file input exists while App renders FileUpload (!result) and takes
\* input while it is not disabled (disabled={isLoading}).
InputEnabled == result = Null /\ ~isLoading

\* No handler, callback or continuation runs while an alert() is open.
Running == alert = Null

\* --------------------------------------------------------------- FileUpload
\* handleFileChange up to its first await: no file, a rejected file (alert,
\* return), or an accepted file whose read starts.
HandleFileChange(file) ==
  /\ UNCHANGED <<resetAt, dashState, startup, sent>>
  /\ Running
  /\ InputEnabled
  /\ IF file = Null
     THEN /\ alert' = Null
          /\ UNCHANGED <<appState, jobs, nfiles, requests, parses>>
     ELSE IF ~TypeSupported(file)
     THEN /\ alert' = TypeAlert
          /\ UNCHANGED <<appState, jobs, nfiles, requests, parses>>
     ELSE IF TooLarge(file)
     THEN /\ alert' = SizeAlert
          /\ UNCHANGED <<appState, jobs, nfiles, requests, parses>>
     ELSE /\ nfiles < MaxFiles
          /\ nfiles' = nfiles + 1
          /\ jobs' = [jobs EXCEPT ![nfiles + 1] =
                          [pc |-> "reading", type |-> file.type, name |-> file.name]]
          /\ alert' = Null
          /\ UNCHANGED <<appState, requests, parses>>

\* The awaited read rejects (reader.onerror, img.onerror): handleFileChange's
\* catch alerts; onFileSelect is not called.
FileReadRejected(k) ==
  /\ UNCHANGED <<resetAt, dashState, startup, sent>>
  /\ Running
  /\ jobs[k].pc = "reading"
  /\ jobs' = [jobs EXCEPT ![k] = [pc |-> "readFailed"]]
  /\ alert' = ProcessingAlert
  /\ UNCHANGED <<appState, nfiles, requests, parses>>

\* ---------------------------------------------------------------------- App
\* a catch block without setIsLoading(false)
HandleFileSelectCatch_StillLoading(err) ==
  /\ UNCHANGED isLoading
  /\ error' = IF Truthy(err.message) THEN err.message ELSE FallbackMsg
  /\ UNCHANGED result

\* catch block of handleFileSelect (clearInterval is the job leaving
\* "requested")
HandleFileSelectCatch(err) ==
  /\ isLoading' = FALSE
  /\ error' = IF Truthy(err.message) THEN err.message ELSE FallbackMsg
  /\ UNCHANGED result

\* The awaited read resolves: onFileSelect(fileData) runs handleFileSelect,
\* which calls analyzeFinancialDocument; that runs synchronously up to
\* `await generateContent`, or throws before it, in which case the rejection
\* reaches handleFileSelect's catch before any other task runs.
FileReadResolved(k, base64, readable) ==
  /\ UNCHANGED <<resetAt, dashState, startup, sent>>
  /\ Running
  /\ jobs[k].pc = "reading"
  /\ base64 \in ReadResults(jobs[k])
  /\ LET fileData == FileDataOf(jobs[k], base64)
         built == BuildParts(fileData.base64, fileData.mimeType, readable)
     IN /\ currentFile' = fileData
        /\ progress' = 0
        /\ IF built.thrown = Null
           THEN /\ isLoading' = TRUE
                /\ error' = Null
                /\ UNCHANGED result
                /\ requests' = [requests EXCEPT ![k] = @ + 1]
                /\ jobs' = [jobs EXCEPT ![k] = [pc |-> "requested"]]
           ELSE /\ HandleFileSelectCatch(CatchFilter(built.thrown))
                /\ UNCHANGED requests
                /\ jobs' = [jobs EXCEPT ![k] = [pc |-> "failed"]]
  /\ alert' = Null
  /\ UNCHANGED <<nfiles, parses>>

\* setInterval callback of job k, alive from handleFileSelect's start until
\* clearInterval
ProgressTick(k) ==
  /\ UNCHANGED <<resetAt, dashState, startup, sent>>
  /\ Running
  /\ jobs[k].pc = "requested"
  /\ progress < MaxTickProgress
  /\ progress' = IF progress >= 90 THEN progress
                 ELSE progress + (IF progress < 50 THEN 5 ELSE 2)
  /\ alert' = Null
  /\ UNCHANGED <<isLoading, result, error, currentFile, jobs, nfiles, requests, parses>>

\* generateContent resolves with `response`: analyzeFinancialDocument
\* finishes (return, or throw through its catch), then handleFileSelect
\* continues after its await.
RequestResolved(k, response) ==
  /\ UNCHANGED <<resetAt, dashState, startup, sent>>
  /\ Running
  /\ jobs[k].pc = "requested"
  /\ LET r == ParseResponse(response) IN
     /\ parses' = [parses EXCEPT ![k] = IF r.parsed THEN @ + 1 ELSE @]
     /\ IF r.thrown = Null
        THEN /\ progress' = 100
             /\ jobs' = [jobs EXCEPT ![k] = [pc |-> "delay", analysis |-> r.value]]
             /\ UNCHANGED <<isLoading, result, error>>
        ELSE /\ HandleFileSelectCatch(CatchFilter(r.thrown))
             /\ jobs' = [jobs EXCEPT ![k] = [pc |-> "failed"]]
             /\ UNCHANGED progress
  /\ alert' = Null
  /\ UNCHANGED <<currentFile, nfiles, requests>>

\* RequestRejected with one automatic retry: the first rejection sends the
\* request again instead of reaching handleFileSelect's catch.
RequestRejected_Retry(k, e) ==
  /\ UNCHANGED <<resetAt, dashState, startup, sent>>
  /\ Running
  /\ jobs[k].pc = "requested"
  /\ IF requests[k] < 2
     THEN /\ requests' = [requests EXCEPT ![k] = @ + 1]
          /\ UNCHANGED <<isLoading, result, error, jobs>>
     ELSE /\ HandleFileSelectCatch(CatchFilter(e))
          /\ jobs' = [jobs EXCEPT ![k] = [pc |-> "failed"]]
          /\ UNCHANGED requests
  /\ alert' = Null
  /\ UNCHANGED <<progress, currentFile, nfiles, parses>>

\* generateContent rejects with error e
RequestRejected(k, e) ==
  /\ UNCHANGED <<resetAt, dashState, startup, sent>>
  /\ Running
  /\ jobs[k].pc = "requested"
  /\ HandleFileSelectCatch(CatchFilter(e))
  /\ jobs' = [jobs EXCEPT ![k] = [pc |-> "failed"]]
  /\ alert' = Null
  /\ UNCHANGED <<progress, currentFile, nfiles, requests, parses>>

\* useEffect: if (targetYear && !comparisonYear) setComparisonYear(targetYear)
DefaultComparisonYear(data, year) ==
  IF Truthy(targetYear(data)) /\ ~Truthy(year) THEN targetYear(data) ELSE year

\* App renders the Dashboard for the first time: its useState cells take
\* their initial values, then the effects run
DashboardMounts(data) ==
  /\ viewMode' = "dashboard"
  /\ selectedEntity' = Overview
  /\ accountSearch' = Str(<<>>)
  /\ showSaveDialog' = FALSE
  /\ comparisonMetric' = NetProfit
  /\ comparisonYear' = DefaultComparisonYear(data, Str(<<>>))
  /\ comparisonChartType' = "bar"

\* the mounted Dashboard receives a new `data` prop: its element has no key,
\* so its state cells are kept, then the effects run
DashboardUpdates(data) ==
  /\ comparisonYear' = DefaultComparisonYear(data, comparisonYear)
  /\ UNCHANGED <<viewMode, selectedEntity, accountSearch, showSaveDialog,
                 comparisonMetric, comparisonChartType>>

\* App renders FileUpload instead of the Dashboard: the state cells are gone
\* (the next Dashboard starts from the initial values)
DashboardUnmounts ==
  /\ viewMode' = "dashboard"
  /\ selectedEntity' = Overview
  /\ accountSearch' = Str(<<>>)
  /\ showSaveDialog' = FALSE
  /\ comparisonMetric' = NetProfit
  /\ comparisonYear' = Str(<<>>)
  /\ comparisonChartType' = "bar"

\* the setTimeout(…, 500) callback of a successful analysis
DelayedSetResult(k) ==
  /\ UNCHANGED <<resetAt, startup, sent>>
  /\ Running
  /\ jobs[k].pc = "delay"
  /\ IF result = Null THEN DashboardMounts(jobs[k].analysis)
     ELSE DashboardUpdates(jobs[k].analysis)
  /\ result' = jobs[k].analysis
  /\ isLoading' = FALSE
  /\ jobs' = [jobs EXCEPT ![k] = [pc |-> "done"]]
  /\ alert' = Null
  /\ UNCHANGED <<progress, error, currentFile, nfiles, requests, parses>>

\* handleReset, reachable from the navbar button and the Dashboard, both
\* rendered only while result is set
HandleReset ==
  /\ resetAt' = nfiles
  /\ UNCHANGED <<startup, sent>>
  /\ DashboardUnmounts
  /\ Running
  /\ result # Null
  /\ result' = Null
  /\ currentFile' = Null
  /\ error' = Null
  /\ progress' = 0
  /\ alert' = Null
  /\ UNCHANGED <<isLoading, jobs, nfiles, requests, parses>>

\* the user dismisses the open alert(); the handler that raised it returns
DismissAlert ==
  /\ UNCHANGED <<resetAt, dashState, startup, sent>>
  /\ alert # Null
  /\ alert' = Null
  /\ UNCHANGED <<appState, jobs, nfiles, requests, parses>>

Next ==
  \/ \E file \in Files \cup {Null} : HandleFileChange(file)
  \/ \E k \in JobIds : FileReadRejected(k)
  \/ \E k \in JobIds, base64 \in Base64Kinds, readable \in BOOLEAN :
        FileReadResolved(k, base64, readable)
  \/ \E k \in JobIds : ProgressTick(k)
  \/ \E k \in JobIds, response \in Responses : RequestResolved(k, response)
  \/ \E k \in JobIds, e \in ServiceErrors : RequestRejected(k, e)
  \/ \E k \in JobIds : DelayedSetResult(k)
  \/ HandleReset
  \/ DismissAlert

Spec == Init /\ [][Next]_vars

\* ---------------------------------------------------------------- Dashboard
\* App renders the Dashboard while result is set
DashboardShown == result # Null

\* the entity selector of the control bar
EntitySelectorShown(data, mode) ==
  mode # "accounts" /\ Len(availableEntities(data)) > 1

\* the comparative-analysis card with its year, metric and chart controls
ComparisonShown(data, entity, mode) ==
  /\ mode = "dashboard"
  /\ entity = Overview
  /\ Len(Items(data, "entity_insights")) > 1

\* every handler below is followed by a render and by the effects
Rerender ==
  /\ result' = Render(result, selectedEntity', viewMode')
  /\ UNCHANGED <<isLoading, progress, error, currentFile, jobs, nfiles, requests,
                 parses, alert, resetAt, startup, sent>>

SetViewMode(mode) ==
  /\ Running
  /\ DashboardShown
  /\ viewMode' = mode
  /\ UNCHANGED <<selectedEntity, accountSearch, showSaveDialog, comparisonMetric,
                 comparisonYear, comparisonChartType>>
  /\ Rerender

SetSelectedEntity(entity) ==
  /\ Running
  /\ DashboardShown
  /\ EntitySelectorShown(result, viewMode)
  /\ entity \in Range(availableEntities(result))
  /\ selectedEntity' = entity
  /\ UNCHANGED <<viewMode, accountSearch, showSaveDialog, comparisonMetric,
                 comparisonYear, comparisonChartType>>
  /\ Rerender

SetAccountSearch(text) ==
  /\ Running
  /\ DashboardShown
  /\ viewMode = "accounts"
  /\ accountSearch' = text
  /\ UNCHANGED <<viewMode, selectedEntity, showSaveDialog, comparisonMetric,
                 comparisonYear, comparisonChartType>>
  /\ Rerender

SetComparisonMetric(metricLabel) ==
  /\ Running
  /\ DashboardShown
  /\ ComparisonShown(result, selectedEntity, viewMode)
  /\ comparisonMetric' = metricLabel
  /\ UNCHANGED <<viewMode, selectedEntity, accountSearch, showSaveDialog,
                 comparisonYear, comparisonChartType>>
  /\ Rerender

SetComparisonYear(year) ==
  /\ Running
  /\ DashboardShown
  /\ ComparisonShown(result, selectedEntity, viewMode)
  /\ year \in Range(availableYears(result))
  /\ comparisonYear' = DefaultComparisonYear(result, year)
  /\ UNCHANGED <<viewMode, selectedEntity, accountSearch, showSaveDialog,
                 comparisonMetric, comparisonChartType>>
  /\ Rerender

SetComparisonChartType(type) ==
  /\ Running
  /\ DashboardShown
  /\ ComparisonShown(result, selectedEntity, viewMode)
  /\ comparisonChartType' = type
  /\ UNCHANGED <<viewMode, selectedEntity, accountSearch, showSaveDialog,
                 comparisonMetric, comparisonYear>>
  /\ Rerender

\* the Export button of the control bar
OpenSaveDialog ==
  /\ Running
  /\ DashboardShown
  /\ showSaveDialog' = TRUE
  /\ UNCHANGED <<viewMode, selectedEntity, accountSearch, comparisonMetric,
                 comparisonYear, comparisonChartType>>
  /\ Rerender

\* the close and cancel buttons of the save dialog
CloseSaveDialog ==
  /\ Running
  /\ DashboardShown
  /\ showSaveDialog
  /\ showSaveDialog' = FALSE
  /\ UNCHANGED <<viewMode, selectedEntity, accountSearch, comparisonMetric,
                 comparisonYear, comparisonChartType>>
  /\ Rerender

\* handleExportPDF: closes the dialog; its timeout callback swaps
\* document.title around window.print() and touches no component state
HandleExportPDF ==
  /\ Running
  /\ DashboardShown
  /\ showSaveDialog
  /\ showSaveDialog' = FALSE
  /\ UNCHANGED <<viewMode, selectedEntity, accountSearch, comparisonMetric,
                 comparisonYear, comparisonChartType>>
  /\ Rerender

\* The application once an analysis of one file has succeeded with `data`:
\* the Dashboard is mounted on it and its mount effects have run.
DashInit ==
  /\ result \in Results
  /\ isLoading = FALSE
  /\ progress = 100
  /\ error = Null
  /\ currentFile = FileDataOf([type |-> "application/pdf", name |-> "doc"], "rawBase64")
  /\ jobs = [k \in JobIds |-> IF k = 1 THEN [pc |-> "done"] ELSE Idle]
  /\ nfiles = 1
  /\ requests = [k \in JobIds |-> IF k = 1 THEN 1 ELSE 0]
  /\ parses = [k \in JobIds |-> IF k = 1 THEN 1 ELSE 0]
  /\ alert = Null
  /\ resetAt = 0
  /\ viewMode = "dashboard"
  /\ selectedEntity = Overview
  /\ accountSearch = Str(<<>>)
  /\ showSaveDialog = FALSE
  /\ comparisonMetric = NetProfit
  /\ comparisonYear = DefaultComparisonYear(result, Str(<<>>))
  /\ comparisonChartType = "bar"
  /\ startup = Started
  /\ sent = Null

DashNext ==
  \/ \E mode \in ViewModes : SetViewMode(mode)
  \/ \E entity \in {Overview} \cup {EntityName(i) : i \in 1..(MaxEntities + 1)} :
        SetSelectedEntity(entity)
  \/ \E text \in AccountSearches : SetAccountSearch(text)
  \/ \E metricLabel \in MetricOptions : SetComparisonMetric(metricLabel)
  \/ \E year \in {Y2568, Y2025, Y2024, Y999} : SetComparisonYear(year)
  \/ \E type \in ChartTypes : SetComparisonChartType(type)
  \/ OpenSaveDialog
  \/ CloseSaveDialog
  \/ HandleExportPDF

\* the Dashboard of one successful analysis, followed through its controls
DashSpec == DashInit /\ [][DashNext]_vars

\* ------------------------------ analyzeFinancialDocument: the request
\* analyzeFinancialDocument runs up to generateContent: the parts are built
\* and sent, or the call throws before any request
SendRequest ==
  /\ sent.pc = "called"
  /\ LET built == BuildParts(sent.base64Data, sent.mimeType, sent.readable)
     IN sent' = IF built.thrown = Null
                THEN [sent EXCEPT !.pc = "requested", !.parts = built.parts]
                ELSE [sent EXCEPT !.pc = "thrown", !.thrown = built.thrown]
  /\ UNCHANGED <<appState, jobs, nfiles, requests, parses, alert, resetAt, dashState,
                 startup>>

\* a call of analyzeFinancialDocument with each MIME type and content
PartsInit ==
  /\ isLoading = FALSE
  /\ progress = 0
  /\ result = Null
  /\ error = Null
  /\ currentFile = Null
  /\ jobs = [k \in JobIds |-> Idle]
  /\ nfiles = 0
  /\ requests = [k \in JobIds |-> 0]
  /\ parses = [k \in JobIds |-> 0]
  /\ alert = Null
  /\ resetAt = 0
  /\ useStateDefaults
  /\ startup = Started
  /\ sent \in [pc : {"called"}, mimeType : FileTypes, base64Data : Base64Kinds,
               readable : BOOLEAN, parts : {<<>>}, thrown : {Null}]

PartsNext == SendRequest

\* analyzeFinancialDocument from its call to its request
PartsSpec == PartsInit /\ [][PartsNext]_vars

\* ------------------------------------------- App: every request settles
\* a PDF and a spreadsheet that pass validation, an image that does not
LoadFiles ==
  {[type |-> t, size |-> 1, name |-> "doc"] : t \in {"application/pdf", XLSX, "image/gif"}}

\* a response that parses, one that does not, one without text
LoadResponses ==
  {[hasText |-> FALSE, text |-> ""]} \cup
  {[hasText |-> TRUE, text |-> t] : t \in {"{\"summary\":\"A\"}", "not json"}}

LoadErrors == {Err(Str(<<"F","a","i","l","e","d"," ","t","o"," ","f","e","t","c","h">>))}

\* the awaited generateContent call of job k settles
RequestSettles(k) ==
  \/ \E response \in LoadResponses : RequestResolved(k, response)
  \/ \E e \in LoadErrors : RequestRejected(k, e)

LoadNext ==
  \/ \E file \in LoadFiles : HandleFileChange(file)
  \/ \E k \in JobIds : FileReadRejected(k)
  \/ \E k \in JobIds, base64 \in Base64Kinds, readable \in BOOLEAN :
        FileReadResolved(k, base64, readable)
  \/ \E k \in JobIds : ProgressTick(k)
  \/ \E k \in JobIds : RequestSettles(k)
  \/ \E k \in JobIds : DelayedSetResult(k)
  \/ HandleReset
  \/ DismissAlert

\* every pending request settles, every timer that was set fires, and an
\* open alert() (which blocks the event loop) is dismissed
LoadFairness ==
  /\ \A k \in JobIds : WF_vars(RequestSettles(k))
  /\ \A k \in JobIds : WF_vars(DelayedSetResult(k))
  /\ WF_vars(DismissAlert)

\* App with an external service that answers every request
LoadSpec == Init /\ [][LoadNext]_vars /\ LoadFairness

\* ------------------------------------------------------ App with Dashboard
\* the PDF files of a session
SessionFiles == {[type |-> "application/pdf", size |-> 1, name |-> "doc"]}

SessionNext ==
  \/ \E file \in SessionFiles : HandleFileChange(file)
  \/ \E k \in JobIds : FileReadResolved(k, "rawBase64", TRUE)
  \/ \E k \in JobIds, response \in EntityResponses : RequestResolved(k, response)
  \/ \E k \in JobIds : DelayedSetResult(k)
  \/ HandleReset
  \/ \E mode \in ViewModes : SetViewMode(mode)
  \/ \E entity \in {Overview} \cup {EntityName(i) : i \in 1..(MaxEntities + 1)} :
        SetSelectedEntity(entity)

\* App from its start, with documents that have entities, and the Dashboard
\* of each result followed through its view and entity controls
SessionSpec == Init /\ [][SessionNext]_vars

\* ------------------------------------------- geminiService: module start-up
\* nothing of the application runs while the module is being evaluated
AppUntouched ==
  UNCHANGED <<appState, jobs, nfiles, requests, parses, alert, resetAt, dashState,
              sent>>

\* getApiKey, first try block
TryViteEnv ==
  /\ startup.pc = "start"
  /\ LET r == TryCatch(ReadViteKey(startup.vite))
     IN startup' = IF r.thrown THEN [startup EXCEPT !.pc = "crashed"]
                   ELSE IF r.key # Null
                   THEN [startup EXCEPT !.pc = "returned", !.apiKey = r.key]
                   ELSE [startup EXCEPT !.pc = "process"]
  /\ AppUntouched

\* getApiKey, second try block
TryProcessEnv ==
  /\ startup.pc = "process"
  /\ LET r == TryCatch(ReadProcessKey(startup.process))
     IN startup' = IF r.thrown THEN [startup EXCEPT !.pc = "crashed"]
                   ELSE IF r.key # Null
                   THEN [startup EXCEPT !.pc = "returned", !.apiKey = r.key]
                   ELSE [startup EXCEPT !.pc = "fallback"]
  /\ AppUntouched

\* getApiKey: return ""
ReturnEmptyKey ==
  /\ startup.pc = "fallback"
  /\ startup' = [startup EXCEPT !.pc = "returned", !.apiKey = Str(<<>>)]
  /\ AppUntouched

\* if (!apiKey) console.warn(...)
WarnMissingKey ==
  /\ startup.pc = "returned"
  /\ ~Truthy(startup.apiKey)
  /\ startup' = [startup EXCEPT !.pc = "warned", !.warned = TRUE]
  /\ AppUntouched

\* const genAI = new GoogleGenAI({ apiKey })
CreateClient ==
  /\ \/ startup.pc = "returned" /\ Truthy(startup.apiKey)
     \/ startup.pc = "warned"
  /\ startup' = [startup EXCEPT !.pc = "ready"]
  /\ AppUntouched

\* the module about to be evaluated, in each environment
BootInit ==
  /\ isLoading = FALSE
  /\ progress = 0
  /\ result = Null
  /\ error = Null
  /\ currentFile = Null
  /\ jobs = [k \in JobIds |-> Idle]
  /\ nfiles = 0
  /\ requests = [k \in JobIds |-> 0]
  /\ parses = [k \in JobIds |-> 0]
  /\ alert = Null
  /\ resetAt = 0
  /\ useStateDefaults
  /\ startup \in [pc : {"start"}, vite : ViteSources, process : ProcessSources,
                  apiKey : {Null}, warned : {FALSE}]
  /\ sent = Null

BootNext ==
  \/ TryViteEnv
  \/ TryProcessEnv
  \/ ReturnEmptyKey
  \/ WarnMissingKey
  \/ CreateClient

\* the evaluation of the geminiService module
BootSpec == BootInit /\ [][BootNext]_vars

\* ================================================================== claims
\* job k's handler chain ends in failure in this step
Fails(k) == jobs[k].pc \in {"reading", "requested"} /\ jobs'[k].pc = "failed"

\* C1: at any time at most one call of analyzeFinancialDocument has started
\* and not yet settled.
C1_AtMostOneInFlight == Cardinality(InFlight) <= 1

\* C2: result becomes non-null only through the delayed setResult of a call
\* that resolved successfully, and is then exactly the value JSON.parse gave
\* for that call's response; a step in which an analysis fails leaves result
\* as it was.
C2_ResultOnlyFromSuccess ==
  [][ /\ (result' # result) =>
           ( \/ result' = Null
             \/ \E k \in JobIds : jobs[k].pc = "delay" /\ jobs'[k].pc = "done"
                                  /\ result' = jobs[k].analysis )
      /\ \A k \in JobIds :
           (jobs[k].pc # "delay" /\ jobs'[k].pc = "delay") =>
             \E response \in Responses :
                /\ RequestResolved(k, response)
                /\ response.hasText
                /\ JSONparse(response.text) # SyntaxError
                /\ jobs'[k].analysis = JSONparse(response.text)
      /\ \A k \in JobIds : Fails(k) => result' = result
    ]_vars

C2_Witness ==
  /\ result = [summary |-> "B"]
  /\ \E k, j \in JobIds : jobs[k].pc = "done" /\ jobs[j].pc = "failed"

\* C3: whenever an analysis fails, the application is back in the
\* pre-analysis state: isLoading false, result null, a non-empty error, and
\* the file input rendered and enabled.
C3_FailureRestoresPreAnalysis ==
  [][ \A k \in JobIds :
        Fails(k) => ( /\ isLoading' = FALSE
                      /\ result' = Null
                      /\ error' # Null /\ error' # Str(<<>>)
                      /\ InputEnabled' )
    ]_vars

\* C4: a file whose MIME type is not one of the seven supported types, or
\* whose size is above 10*1024*1024 bytes, starts no read and no request and
\* leaves isLoading, result, error and progress unchanged; a supported file of
\* exactly 10*1024*1024 bytes is accepted (its read starts).
C4_RejectsBeforePayload ==
  [][ \A file \in Files :
        /\ ( /\ ( \/ file.type \notin {"image/jpeg", "image/png", "image/webp",
                                       "application/pdf", XLSX, XLS, "text/csv"}
                  \/ file.size > 10 * 1024 * 1024 )
             /\ HandleFileChange(file) )
           => UNCHANGED <<isLoading, result, error, progress, currentFile,
                          jobs, nfiles, requests>>
        /\ ( /\ file.type \in {"image/jpeg", "image/png", "image/webp",
                                "application/pdf", XLSX, XLS, "text/csv"}
             /\ file.size = 10 * 1024 * 1024
             /\ HandleFileChange(file) )
           => ( /\ alert' = Null
                /\ nfiles' = nfiles + 1
                /\ jobs'[nfiles'].pc = "reading"
                /\ jobs'[nfiles'].type = file.type )
    ]_vars

C4_Witness == alert = SizeAlert /\ nfiles = 1 /\ jobs[1].pc = "failed"

\* C5: every rejection of the generateContent call, whatever its message,
\* leaves analyzeFinancialDocument as the generic connection message.
C5_ServiceFailureIsGeneric ==
  [][ \A k \in JobIds, e \in ServiceErrors :
        ( /\ jobs[k].pc = "requested" /\ jobs'[k].pc # "requested"
          /\ RequestRejected(k, e) ) => error' = GenericMsg
    ]_vars

\* C6: when decoding a text/csv payload fails, the error shown is the CSV
\* message, not the generic one, and no request has been sent.
C6_CsvFailureIsSpecific ==
  [][ \A k \in JobIds, base64 \in Base64Kinds :
        ( /\ jobs[k].pc = "reading"
          /\ jobs[k].type = "text/csv"
          /\ FileReadResolved(k, base64, FALSE) ) =>
          ( error' = CsvErrorMsg /\ requests'[k] = 0 )
    ]_vars

\* C7: when an XLSX/XLS payload cannot be parsed, the analysis fails with the
\* Excel message, not the generic one, and generateContent is never called
\* for that analysis.
C7_ExcelFailureIsSpecific ==
  [][ /\ \A k \in JobIds, base64 \in Base64Kinds :
           ( /\ jobs[k].pc = "reading"
             /\ jobs[k].type \in {XLSX, XLS}
             /\ FileReadResolved(k, base64, FALSE) ) =>
             ( /\ jobs'[k].pc = "failed"
               /\ error' = ExcelErrorMsg
               /\ error' # GenericMsg
               /\ requests'[k] = 0 )
      /\ \A k \in JobIds : jobs[k].pc = "failed" => requests'[k] = requests[k]
    ]_vars

C7_Witness ==
  /\ currentFile # Null
  /\ currentFile.mimeType \in {XLSX, XLS}
  /\ error = ExcelErrorMsg
  /\ \E k \in JobIds : jobs[k].pc = "failed" /\ requests[k] = 0

\* C8: an empty or absent response text makes the analysis fail with the
\* empty-response message, never the malformed-JSON or the generic one, and
\* JSON.parse is not called.
C8_EmptyResponse ==
  [][ \A k \in JobIds, response \in Responses :
        ( /\ jobs[k].pc = "requested" /\ jobs'[k].pc # "requested"
          /\ (~response.hasText \/ response.text = "")
          /\ RequestResolved(k, response) ) =>
          ( /\ jobs'[k].pc = "failed"
            /\ error' = EmptyResponseMsg
            /\ error' \notin {InvalidJsonMsg, GenericMsg}
            /\ parses'[k] = 0 )
    ]_vars

C8_Witness ==
  /\ error = EmptyResponseMsg
  /\ \E k \in JobIds : jobs[k].pc = "failed" /\ requests[k] = 1 /\ parses[k] = 0

\* C9: a non-empty response text that is not valid JSON makes the analysis
\* fail with the malformed-response message, the same fixed text whatever
\* the response text was.
C9_MalformedResponse ==
  [][ \A k \in JobIds, response \in Responses :
        ( /\ jobs[k].pc = "requested" /\ jobs'[k].pc # "requested"
          /\ response.hasText
          /\ response.text \in {"not json", "{\"summary\":"}
          /\ RequestResolved(k, response) ) =>
          ( /\ jobs'[k].pc = "failed"
            /\ parses'[k] = 1
            /\ error' = InvalidJsonMsg )
    ]_vars

C9_Witness ==
  /\ error = InvalidJsonMsg
  /\ \E k \in JobIds : jobs[k].pc = "failed" /\ requests[k] = 1 /\ parses[k] = 1

C12_ResetClearsUntilNewUpload ==
  [][/\ HandleReset
        => result' = Null /\ currentFile' = Null /\ error' = Null /\ progress' = 0
     /\ (result = Null /\ result' # Null)
        => \E k \in JobIds : k > resetAt /\ jobs[k].pc = "delay" /\ jobs'[k].pc = "done"
    ]_vars

\* C13: once the request for a payload has been issued, no state variable
\* holds that payload (base64, mimeType, name): in the state in which job k's
\* request has just been sent, currentFile is not the payload it was built
\* from.
C13_PayloadNotRetained ==
  [][\A k \in JobIds :
       (jobs[k].pc = "reading" /\ jobs'[k].pc = "requested")
       => \A base64 \in ReadResults(jobs[k]) :
             currentFile' # FileDataOf(jobs[k], base64)]_vars

\* C14: the payload passed to onFileSelect for an accepted file has MIME type
\* image/jpeg when the file's type starts with image/ and the file's own type
\* otherwise, so it is one of JPEG, PDF, XLSX, XLS, CSV.
C14_PayloadMimeNormalised ==
  [][\A k \in JobIds :
       (jobs[k].pc = "reading" /\ jobs'[k].pc \in {"requested", "failed"})
       => /\ currentFile'.mimeType =
               IF jobs[k].type \in {"image/jpeg", "image/png", "image/webp"}
               THEN "image/jpeg" ELSE jobs[k].type
          /\ currentFile'.mimeType \in
               {"image/jpeg", "application/pdf", XLSX, XLS, "text/csv"}]_vars

\* an image was selected and its payload, declared image/jpeg, reached the App
C14_Witness ==
  /\ currentFile # Null
  /\ currentFile.mimeType = "image/jpeg"
  /\ nfiles = 1
  /\ jobs[1].pc = "requested"

\* C15: on every path through compressImage the content of an image payload
\* is the JPEG re-encoding without its data-URL prefix: a payload declared
\* image/jpeg carries bare JPEG base64.
C15_JpegPayloadIsBareJpeg ==
  (currentFile # Null /\ currentFile.mimeType = "image/jpeg")
  => currentFile.base64 = "jpegBase64"

\* the truthy years carried by the metrics of a result, top level and entities
MetricYears(data) ==
  {m.year : m \in {x \in Range(Items(data, "key_metrics")) : Truthy(Field(x, "year"))}}
  \cup UNION {{m.year : m \in {x \in Range(e.key_metrics) : Truthy(Field(x, "year"))}} :
                e \in Range(Items(data, "entity_insights"))}

\* C16: the target year of a result is "2568" if any top-level or per-entity
\* metric has that year, else "2025" if any has that one, else the greatest
\* year label in string order among the non-empty metric years, else the
\* empty string; the Dashboard's default comparison year is that year.
C16_TargetYear ==
  DashboardShown =>
    LET ys == MetricYears(result)
        expected == IF Y2568 \in ys THEN Y2568
                    ELSE IF Y2025 \in ys THEN Y2025
                    ELSE IF ys = {} THEN Str(<<>>)
                    ELSE CHOOSE y \in ys : \A z \in ys : localeCompare(y, z) >= 0
    IN /\ targetYear(result) = expected
       /\ expected # Str(<<>>) => comparisonYear \in ys
       /\ (expected # Str(<<>>) /\ ~ComparisonShown(result, Overview, "dashboard"))
            => comparisonYear = expected

\* the string order decides: "999" is the target year of a result that also
\* has "2024", and the Dashboard was mounted with it
C16_Witness ==
  /\ MetricYears(result) = {Y999, Y2024}
  /\ targetYear(result) = Y999
  /\ comparisonYear = Y999
  /\ viewMode = "report"

\* the values selectedEntity is given to the derivation with
SelectableValues == {Overview} \cup {EntityName(i) : i \in 1..(MaxEntities + 1)}

\* C17 as stated: for every result and selected entity value, "Overview"
\* gives the top-level summary, future outlook, ratios and anomalies
\* unfiltered; the name of an entity of entity_insights gives that entity's
\* summary; any other value (or absent entity_insights) gives the fixed
\* placeholder, and the derivation completes.
C17_DerivedDataFollowsSelection ==
  DashboardShown =>
    \A entity \in SelectableValues :
      LET derived == currentData(result, entity)
          entities == Items(result, "entity_insights")
          named == {i \in 1..Len(entities) : entities[i].name = entity}
      IN IF entity = Overview
         THEN /\ derived.summary = result.summary
              /\ derived.future = result.future_outlook
              /\ derived.ratios = result.financial_ratios
              /\ derived.anomalies = result.anomalies
         ELSE IF named # {}
         THEN \E i \in named : derived.summary = entities[i].summary
         ELSE derived.summary = NoDataPlaceholder

\* C17 as amended: as C17, except that the name of an entity gives the
\* summary of the first entity with that name when that summary is not
\* empty, and the placeholder when it is empty.
C17_DerivedDataFollowsSelection_Amended ==
  DashboardShown =>
    \A entity \in SelectableValues :
      LET derived == currentData(result, entity)
          entities == Items(result, "entity_insights")
          named == {i \in 1..Len(entities) : entities[i].name = entity}
      IN IF entity = Overview
         THEN /\ derived.summary = result.summary
              /\ derived.future = result.future_outlook
              /\ derived.ratios = result.financial_ratios
              /\ derived.anomalies = result.anomalies
         ELSE IF named # {}
         THEN \E i \in named :
                 /\ \A j \in named : i <= j
                 /\ derived.summary = IF entities[i].summary # Str(<<>>)
                                      THEN entities[i].summary ELSE NoDataPlaceholder
         ELSE derived.summary = NoDataPlaceholder

\* the user selected the second of two entities, whose summary is empty, and
\* is shown the placeholder
C17_Witness ==
  /\ selectedEntity = EntityName(2)
  /\ Len(Items(result, "entity_insights")) = 2
  /\ result.entity_insights[2].summary = Str(<<>>)
  /\ result.entity_insights[1].summary # Str(<<>>)
  /\ currentData(result, selectedEntity).summary = NoDataPlaceholder

\* the anomalies of a result that belong to an entity or to none, in their
\* original order
AnomaliesOf(data, entity) ==
  LET own == {i \in 1..Len(data.anomalies) :
                \/ Field(data.anomalies[i], "related_entity") = entity
                \/ Field(data.anomalies[i], "related_entity") \in {Null, Str(<<>>)}}
      kept == SelectIdx(Len(data.anomalies), own)
  IN [i \in 1..Len(kept) |-> data.anomalies[kept[i]]]

\* C18: while an entity other than "Overview" is selected, the anomaly list
\* of every view that offers the entity selector (dashboard, report) is made
\* of exactly the anomalies whose related_entity is the selected entity or
\* is missing, in their original order (before the dashboard ranks them); an
\* anomaly of another entity is never shown.
C18_AnomaliesOfSelectedEntityOnly ==
  (DashboardShown /\ selectedEntity # Overview) =>
    /\ viewMode = "dashboard" =>
         /\ currentData(result, selectedEntity).anomalies
              = AnomaliesOf(result, selectedEntity)
         /\ Range(DashboardAnomalies(result, selectedEntity))
              \subseteq Range(AnomaliesOf(result, selectedEntity))
    /\ viewMode = "report" =>
         ReportAnomalies(result, selectedEntity) = AnomaliesOf(result, selectedEntity)

\* severity of an impact: High above Medium above Low
Severity(impact) == CASE impact = "High" -> 3 [] impact = "Medium" -> 2 [] OTHER -> 1

\* `shown` lists anomalies of `source` by falling severity, equal severities
\* in the order they have in `source`
RankedStably(shown, source) ==
  \A i, j \in 1..Len(shown) :
     i < j =>
       /\ Severity(shown[i].impact) >= Severity(shown[j].impact)
       /\ Severity(shown[i].impact) = Severity(shown[j].impact) =>
            \E a, b \in 1..Len(source) :
               a < b /\ source[a] = shown[i] /\ source[b] = shown[j]

\* C19: the anomaly list of the dashboard view (the inline sort of
\* Dashboard.tsx, topAnomalies of the variant) is ordered High before Medium
\* before Low, anomalies of equal impact in their original relative order.
C19_AnomaliesRankedBySeverity ==
  (DashboardShown /\ viewMode = "dashboard") =>
    /\ RankedStably(DashboardAnomalies(result, selectedEntity), result.anomalies)
    /\ RankedStably(topAnomalies(result, selectedEntity), result.anomalies)

\* C20: for a result with entities, every comparison metric and every year,
\* the comparison series has one entry per element of entity_insights, in
\* the same order and under the entity's name; its value is 0 for an entity
\* without a metric of that label and year, and the value of the first such
\* metric otherwise.
C20_ComparisonSeries ==
  (DashboardShown /\ Len(Items(result, "entity_insights")) > 0) =>
    \A metricLabel \in MetricOptions, year \in {comparisonYear, Y2568, Y2025, Y2024} :
      LET series == comparisonData(result, metricLabel, year)
          entities == result.entity_insights
      IN /\ Len(series) = Len(entities)
         /\ \A i \in 1..Len(entities) :
              LET metrics == entities[i].key_metrics
                  hits == {j \in 1..Len(metrics) :
                             /\ Includes(metrics[j].label, metricLabel)
                             /\ Field(metrics[j], "year") = year}
              IN /\ series[i].name = entities[i].name
                 /\ hits = {} => series[i].value = 0
                 /\ hits # {} =>
                      \E j \in hits : /\ \A h \in hits : j <= h
                                      /\ series[i].value = metrics[j].value

\* the user chose total revenue: the series shown keeps the entity without
\* such a metric, with value 0, next to one that has it
C20_Witness ==
  /\ comparisonMetric = TotalRevenue
  /\ Len(Items(result, "entity_insights")) = 2
  /\ LET series == comparisonData(result, comparisonMetric, comparisonYear)
     IN series[1].value = 0 /\ series[2].value = 7

\* C21: the comparison chart shows its empty state exactly when the series
\* is empty or all its values are 0; otherwise a chart of the chosen type
\* (bar, pie, line) is rendered over all entries, the zero-valued included.
C21_ComparisonChartEmptyState ==
  (DashboardShown /\ ComparisonShown(result, selectedEntity, viewMode)) =>
    LET series == comparisonData(result, comparisonMetric, comparisonYear)
        allZero == \A i \in 1..Len(series) : series[i].value = 0
    IN /\ renderComparisonChart(<<>>, comparisonChartType).kind = "empty"
       /\ \A type \in ChartTypes :
            LET shown == renderComparisonChart(series, type)
            IN IF allZero THEN shown.kind = "empty"
               ELSE /\ shown.kind = type
                    /\ shown.data = series
                    /\ Len(shown.data) = Len(result.entity_insights)

\* the user chose the pie chart and total revenue: one entity has the
\* metric, the other has not, and both are in the chart
C21_Witness ==
  /\ ComparisonShown(result, selectedEntity, viewMode)
  /\ comparisonChartType = "pie"
  /\ comparisonMetric = TotalRevenue
  /\ LET shown == renderComparisonChart(
                    comparisonData(result, comparisonMetric, comparisonYear),
                    comparisonChartType)
     IN /\ shown.kind = "pie"
        /\ \E i, j \in 1..Len(shown.data) :
              shown.data[i].value = 0 /\ shown.data[j].value # 0

\* C22: in the comparison series an entity's metric matches the chosen
\* metric when its year is the selected year and its label contains the
\* chosen label or is contained by it (a match in either direction): the
\* entity's entry carries the value of its first such metric.
C22_MatchEitherDirection ==
  (DashboardShown /\ Len(Items(result, "entity_insights")) > 0) =>
    LET series == comparisonData(result, comparisonMetric, comparisonYear)
        entities == result.entity_insights
    IN \A i \in 1..Len(entities) :
         LET metrics == entities[i].key_metrics
             hits == {j \in 1..Len(metrics) :
                        /\ \/ Includes(metrics[j].label, comparisonMetric)
                           \/ Includes(comparisonMetric, metrics[j].label)
                        /\ Field(metrics[j], "year") = comparisonYear}
         IN hits # {} =>
              \E j \in hits : /\ \A h \in hits : j <= h
                              /\ series[i].value = metrics[j].value

\* the same letter, whatever its case
SameLetter(a, b) ==
  a = b \/ \E n \in 1..Len(UpperCase) : {a, b} = {UpperCase[n], LowerCase[n]}

\* the text has the search text somewhere, case ignored
ContainsIgnoringCase(s, sub) ==
  \E i \in 0..(Len(s.chars) - Len(sub.chars)) :
     \A k \in 1..Len(sub.chars) : SameLetter(s.chars[i + k], sub.chars[k])

\* C23: the filtered account list is the accounts, in their original order,
\* whose name or analysis contains the search text ignoring case; an empty
\* search returns all accounts, an account matching by its analysis alone is
\* returned, and a result without account_insights gives the empty list.
C23_FilteredAccounts ==
  DashboardShown =>
    \A search \in AccountSearches \cup {accountSearch} :
      LET out == filteredAccounts(result, search)
          accounts == Items(result, "account_insights")
          kept == {i \in 1..Len(accounts) :
                     \/ ContainsIgnoringCase(accounts[i].account_name, search)
                     \/ ContainsIgnoringCase(accounts[i].analysis, search)}
      IN /\ Len(out) = Cardinality(kept)
         /\ \A i \in kept : out[Cardinality({j \in kept : j <= i})] = accounts[i]
         /\ search = Str(<<>>) => out = accounts
         /\ ~("account_insights" \in DOMAIN result) => out = <<>>

\* the user typed "cAsH" in the account view: the list drops an account and
\* keeps one that has the text in its analysis only, in capitals
C23_Witness ==
  /\ viewMode = "accounts"
  /\ accountSearch = Str(<<"c","A","s","H">>)
  /\ LET out == filteredAccounts(result, accountSearch)
     IN /\ Len(out) < Len(Items(result, "account_insights"))
        /\ \E k \in 1..Len(out) :
              /\ ~ContainsIgnoringCase(out[k].account_name, accountSearch)
              /\ out[k].analysis = Str(<<"l","o","w"," ","C","A","S","H">>)

\* the key a source carries: present and not empty
KeyIn(source, name) ==
  IF /\ source.kind \in {"meta", "process"}
     /\ source.env # Null
     /\ name \in DOMAIN source.env
     /\ source.env[name] # Str(<<>>)
  THEN source.env[name]
  ELSE Null

\* C24: getApiKey returns the Vite key when it is present and not empty,
\* otherwise the process key when it is present and not empty, otherwise "";
\* it never throws, whatever source is unavailable, and an empty key only
\* produces a warning: the start-up goes on to create the client.
C24_GetApiKey ==
  LET viteKey == KeyIn(startup.vite, "VITE_API_KEY")
      processKey == KeyIn(startup.process, "API_KEY")
  IN /\ startup.pc # "crashed"
     /\ startup.pc \in {"returned", "warned", "ready"} =>
          startup.apiKey = IF viteKey # Null THEN viteKey
                           ELSE IF processKey # Null THEN processKey
                           ELSE Str(<<>>)
     /\ startup.pc \in {"warned", "ready"} =>
          (startup.warned <=> startup.apiKey = Str(<<>>))
     /\ startup.pc = "warned" => ENABLED CreateClient

\* import.meta cannot be read and process.env has an empty key: the module
\* is up, with the key "" and the warning given
C24_Witness ==
  /\ startup.pc = "ready"
  /\ startup.vite.kind = "throws"
  /\ Field(startup.process.env, "API_KEY") = Str(<<>>)
  /\ startup.apiKey = Str(<<>>)
  /\ startup.warned

\* `shown` has min(5, n) of the n anomalies of `source`, and leaves out none
\* that is more severe than one it has
TopFive(shown, source) ==
  /\ Len(shown) = IF Len(source) < 5 THEN Len(source) ELSE 5
  /\ Range(shown) \subseteq Range(source)
  /\ \A o \in Range(source) \ Range(shown), s \in Range(shown) :
        Severity(o.impact) <= Severity(s.impact)

\* C25: the anomaly list displayed by the dashboard view has min(5, n)
\* entries taken from the n anomalies left by the entity filter, and no
\* anomaly left out has a strictly higher severity (High > Medium > Low)
\* than one that is displayed.
C25_TopFiveBySeverity ==
  (DashboardShown /\ viewMode = "dashboard") =>
    /\ TopFive(DashboardAnomalies(result, selectedEntity),
               currentData(result, selectedEntity).anomalies)
    /\ TopFive(topAnomalies(result, selectedEntity),
               currentData(result, selectedEntity).anomalies)

\* what one step may do to progress
ProgressStep ==
  /\ \A k \in JobIds :
       /\ (jobs[k].pc # "requested" /\ jobs'[k].pc = "requested") => (progress' = 0)
       /\ (jobs[k].pc = "requested" /\ jobs'[k].pc = "requested") =>
             /\ progress' >= progress
             /\ progress' <= 90
             /\ (progress' # progress) =>
                   (progress' - progress = IF progress < 50 THEN 5 ELSE 2)
  /\ (progress' = 100 /\ progress # 100) =>
        (\E k \in JobIds : jobs[k].pc = "requested" /\ jobs'[k].pc = "delay")
  /\ (progress' = 100 /\ progress = 100) => (InFlight' \subseteq InFlight)
  /\ (InFlight = {} /\ progress' # progress) => (progress' = 0)

\* C26: while a request is pending progress starts at 0, never decreases,
\* grows by 5 per tick below 50 and by 2 per tick from 50 on, and never
\* exceeds 90; progress becomes 100 only by a request succeeding, and once
\* no request is pending no timer moves progress any more (it only goes
\* back to 0, by a new analysis or a reset).
C26_ProgressWhilePending == [][ProgressStep]_vars

\* a request of two parts: the content, as text for a spreadsheet or a CSV
\* file and as inline data of the given MIME type otherwise, then the prompt
RequestShape(parts, mimeType) ==
  /\ Len(parts) = 2
  /\ parts[2] = [text |-> "promptText"]
  /\ IF mimeType \in {XLSX, XLS, "text/csv"}
     THEN /\ DOMAIN parts[1] = {"text"}
          /\ parts[1].text # "promptText"
     ELSE /\ DOMAIN parts[1] = {"inlineData"}
          /\ parts[1].inlineData.mimeType = mimeType

\* C27: the request built by analyzeFinancialDocument always has exactly two
\* parts, the content first and the instruction text second; the content is
\* extracted text when the MIME type is XLSX, XLS or text/csv and inline
\* binary data carrying the given MIME type for every other MIME type.
C27_RequestParts ==
  /\ sent.pc = "requested" => RequestShape(sent.parts, sent.mimeType)
  /\ sent.pc = "thrown" => sent.parts = <<>>

\* called with a text/plain file, which no branch extracts text from: the
\* request carries the file as inline data of that type, then the prompt
C27_Witness ==
  /\ sent.pc = "requested"
  /\ sent.mimeType = "text/plain"
  /\ sent.parts[1] = [inlineData |-> [mimeType |-> "text/plain", data |-> sent.base64Data]]
  /\ sent.parts[2] = [text |-> "promptText"]

\* C28: in no reachable state are error and result both set: the page never
\* shows the error banner together with the Dashboard.
C28_ErrorOrResultNotBoth == ~(error # Null /\ result # Null)

\* C29: whenever the Dashboard is shown, selectedEntity is "Overview" or the
\* name of an entity of the result that is displayed, also after the result
\* has been replaced by another one.
C29_SelectedEntityAvailable ==
  DashboardShown =>
    \/ selectedEntity = Overview
    \/ \E i \in 1..Len(Items(result, "entity_insights")) :
          result.entity_insights[i].name = selectedEntity

\* C30: every analysis that is started leaves the loading state: if every
\* request settles and the timers fire, isLoading becomes false again, with
\* a result or an error set.
C30_LoadingEnds == isLoading ~> (~isLoading /\ (result # Null \/ error # Null))

\* a request was sent, it resolved, and its timer ended the loading state
\* with the result set
C30_Witness ==
  /\ ~isLoading
  /\ result # Null
  /\ \E k \in JobIds : jobs[k].pc = "done" /\ requests[k] = 1

====
